---- MODULE Spec2Model ----
(***************************************************************************)
(* tshistogram: time-series histogram in the terminal.                     *)
(*                                                                         *)
(* src/main.go holds two variants of the program:                          *)
(*   variant "A" (lines 1-329):   labelled lines, bins kept in a map keyed *)
(*                                by the truncated instant, one row per    *)
(*                                category;                                *)
(*   variant "B" (lines 331-583): unlabelled lines, bins kept in a dense   *)
(*                                array.                                   *)
(* Both are modelled; the variable ver says which one a run executes.      *)
(*                                                                         *)
(* Representation.  A Go string is a sequence of one-character strings.    *)
(* A time.Time is a record [day, ms]: days since 0001-01-01 (Go's zero     *)
(* Time) and milliseconds within the day; the model clock has millisecond  *)
(* resolution and every location is UTC.                                   *)
(***************************************************************************)
EXTENDS Integers, Sequences, FiniteSets, TLC

(***************************************************************************)
(* Bounds of the model.                                                    *)
(***************************************************************************)
MaxLines == 3

(***************************************************************************)
(* Strings.                                                                *)
(***************************************************************************)
DigitVal ==
  [c \in {"0", "1", "2", "3", "4", "5", "6", "7", "8", "9"} |->
     CASE c = "0" -> 0 [] c = "1" -> 1 [] c = "2" -> 2 [] c = "3" -> 3
       [] c = "4" -> 4 [] c = "5" -> 5 [] c = "6" -> 6 [] c = "7" -> 7
       [] c = "8" -> 8 [] c = "9" -> 9]

isDigit(s, i) == i + 1 <= Len(s) /\ s[i + 1] \in DOMAIN DigitVal

Drop(s, n) == SubSeq(s, n + 1, Len(s))

Take(s, n) == SubSeq(s, 1, n)

\* index (1-based) of the first occurrence of character c in s, 0 when absent
IndexOf(s, c) ==
  IF \E i \in 1..Len(s) : s[i] = c
    THEN CHOOSE i \in 1..Len(s) : s[i] = c /\ \A j \in 1..(i - 1) : s[j] # c
    ELSE 0

\* strings.Cut(value, " ")
Cut(value) ==
  LET i == IndexOf(value, " ")
  IN IF i = 0 THEN [before |-> value, after |-> <<>>]
              ELSE [before |-> Take(value, i - 1), after |-> Drop(value, i)]

\* strings.TrimSpace
TrimSpace(s) ==
  LET keep == {i \in 1..Len(s) : s[i] # " "}
  IN IF keep = {} THEN <<>>
     ELSE LET lo == CHOOSE i \in keep : \A j \in keep : i <= j
              hi == CHOOSE i \in keep : \A j \in keep : j <= i
          IN SubSeq(s, lo, hi)

\* the decimal value of a string of digits
RECURSIVE atoi(_)
atoi(s) == IF s = <<>> THEN 0 ELSE atoi(Take(s, Len(s) - 1)) * 10 + DigitVal[s[Len(s)]]

AllDigits(s) == \A i \in 1..Len(s) : s[i] \in DOMAIN DigitVal

\* strings.ToLower on the format names the model uses
ToLower(layout) ==
  CASE layout = "Unix" -> "unix"
    [] layout = "Unix.Milli" -> "unix.milli"
    [] layout = "RFC3339" -> "rfc3339"
    [] layout = "TimeOnly" -> "timeonly"
    [] OTHER -> layout

(***************************************************************************)
(* strconv.ParseFloat on decimal tokens "ddd" and "ddd.fff" (at most three *)
(* fraction digits).  The float is represented by its value in thousandths.*)
(***************************************************************************)
ParseFloat(v) ==
  LET dot  == IndexOf(v, ".")
      ip   == IF dot = 0 THEN v ELSE Take(v, dot - 1)
      fp   == IF dot = 0 THEN <<>> ELSE Drop(v, dot)
      pad  == fp \o SubSeq(<<"0", "0", "0">>, 1, 3 - Len(fp))
  IN IF /\ AllDigits(ip) /\ AllDigits(fp) /\ Len(fp) <= 3
        /\ Len(ip) + Len(fp) > 0
       THEN [ok |-> TRUE, milli |-> atoi(ip) * 1000 + atoi(pad)]
       ELSE [ok |-> FALSE, milli |-> 0]

(***************************************************************************)
(* time.Time                                                               *)
(***************************************************************************)
MsPerDay == 86400000

\* days from 0001-01-01 to 1970-01-01
EpochDay == 719162

Norm(day, ms) == [day |-> day + (ms \div MsPerDay), ms |-> ms % MsPerDay]

\* time.Time{}
ZeroTime == [day |-> 0, ms |-> 0]

IsZero(t) == t = ZeroTime

Before(a, b) == a.day < b.day \/ (a.day = b.day /\ a.ms < b.ms)

After(a, b) == Before(b, a)

Equal(a, b) == a.day = b.day /\ a.ms = b.ms

Add(t, d) == Norm(t.day, t.ms + d)

\* t.Sub(u) in milliseconds
Sub(t, u) == (t.day - u.day) * MsPerDay + (t.ms - u.ms)

\* Time.Truncate: a multiple of d since the zero Time; t itself when d <= 0
Truncate(t, d) ==
  IF d <= 0 THEN t
  ELSE LET r == (((t.day % d) * (MsPerDay % d)) + t.ms) % d
       IN Norm(t.day, t.ms - r)

\* time.UnixMicro
UnixMicro(us) == Norm(EpochDay, us \div 1000)

\* Go's integer division truncates toward zero
GoDiv(a, b) ==
  IF (a >= 0) = (b > 0) THEN (IF a >= 0 THEN a \div b ELSE (-a) \div (-b))
  ELSE (IF a >= 0 THEN -(a \div (-b)) ELSE -((-a) \div b))

isLeap(year) == year % 4 = 0 /\ (year % 100 # 0 \/ year % 400 = 0)

daysIn(month, year) ==
  IF month = 2 THEN (IF isLeap(year) THEN 29 ELSE 28)
  ELSE IF month \in {4, 6, 9, 11} THEN 30 ELSE 31

RECURSIVE daysBefore(_, _)
daysBefore(month, year) ==
  IF month <= 1 THEN 0 ELSE daysBefore(month - 1, year) + daysIn(month - 1, year)

\* time.Date(year, month, day, hour, min, sec, 0, time.UTC), shifted by a
\* zone offset in seconds
Date(year, month, day, hour, mi, sec, offset) ==
  LET y == year - 1
      d == 365 * y + (y \div 4) - (y \div 100) + (y \div 400)
           + daysBefore(month, year) + day - 1
  IN Norm(d, ((hour * 60 + mi) * 60 + sec - offset) * 1000)

\* t.Year() == 0
YearIsZero(t) == t.day >= -366 /\ t.day <= -1

\* t.AddDate(year, 0, 0) for t in year 0 (a leap year); Feb 29 normalises to
\* Mar 1 when the target year is not a leap year
AddYears(t, year) ==
  LET doy == t.day + 366
      nd  == IF isLeap(year) \/ doy <= 59 THEN doy ELSE doy - 1
      jan1 == Date(year, 1, 1, 0, 0, 0, 0)
  IN [day |-> jan1.day + nd, ms |-> t.ms]

(***************************************************************************)
(* time.Parse.  A layout is the list of chunks nextStdChunk cuts it into:  *)
(* literal characters and standard fields.                                 *)
(***************************************************************************)
Lit(c) == [kind |-> "lit", ch |-> c]

Std(k) == [kind |-> k, ch |-> ""]

\* time.RFC3339 = "2006-01-02T15:04:05Z07:00"
RFC3339 ==
  << Std("stdLongYear"), Lit("-"), Std("stdZeroMonth"), Lit("-"), Std("stdZeroDay"),
     Lit("T"), Std("stdHour"), Lit(":"), Std("stdZeroMinute"), Lit(":"),
     Std("stdZeroSecond"), Std("stdISO8601ColonTZ") >>

\* time.TimeOnly = "15:04:05"
TimeOnly ==
  << Std("stdHour"), Lit(":"), Std("stdZeroMinute"), Lit(":"), Std("stdZeroSecond") >>

\* a layout that is no known name is used verbatim; these two hold no
\* standard field, so every character of them is a literal
Verbatim(layout) ==
  CASE layout = "" -> << >>
    [] layout = "unix-milli" ->
         << Lit("u"), Lit("n"), Lit("i"), Lit("x"), Lit("-"),
            Lit("m"), Lit("i"), Lit("l"), Lit("l"), Lit("i") >>
    [] layout = "unix-micro" ->
         << Lit("u"), Lit("n"), Lit("i"), Lit("x"), Lit("-"),
            Lit("m"), Lit("i"), Lit("c"), Lit("r"), Lit("o") >>

\* getnum(s, fixed): a one- or two-digit number, two digits when fixed
getnum(s, fixed) ==
  IF ~isDigit(s, 0) THEN [ok |-> FALSE, n |-> 0, rest |-> s]
  ELSE IF ~isDigit(s, 1)
    THEN (IF fixed THEN [ok |-> FALSE, n |-> 0, rest |-> s]
                   ELSE [ok |-> TRUE, n |-> DigitVal[s[1]], rest |-> Drop(s, 1)])
    ELSE [ok |-> TRUE, n |-> DigitVal[s[1]] * 10 + DigitVal[s[2]], rest |-> Drop(s, 2)]

ParseErr(kind, elem) == [err |-> kind, elem |-> elem, t |-> ZeroTime]

\* the fields parse() starts from: month and day unset, everything else zero
NoFields ==
  [year |-> 0, month |-> -1, day |-> -1, hour |-> 0, min |-> 0, sec |-> 0, off |-> 0]

\* the zone chunk "Z07:00"
ParseZone(value) ==
  IF Len(value) >= 1 /\ value[1] = "Z"
    THEN [ok |-> TRUE, range |-> FALSE, off |-> 0, rest |-> Drop(value, 1)]
  ELSE IF Len(value) < 6 \/ value[4] # ":"
    THEN [ok |-> FALSE, range |-> FALSE, off |-> 0, rest |-> value]
  ELSE LET hr == getnum(SubSeq(value, 2, 3), TRUE)
           mm == getnum(SubSeq(value, 5, 6), TRUE)
           o  == (hr.n * 60 + mm.n) * 60
       IN [ok    |-> hr.ok /\ mm.ok /\ value[1] \in {"+", "-"},
           range |-> hr.n > 24 \/ mm.n > 60,
           off   |-> IF value[1] = "-" THEN -o ELSE o,
           rest  |-> Drop(value, 6)]

\* one turn of the loop of parse(): consume the chunk c from the front of
\* value.  err = "" when the chunk matched; value and f are then what is left
\* of the text and the fields read so far.
Chunk(err, elem, value, f) == [err |-> err, elem |-> elem, value |-> value, f |-> f]

parseChunk(c, value, f) ==
  CASE c.kind = "lit" ->
         IF value # << >> /\ Head(value) = c.ch
           THEN Chunk("", << >>, Tail(value), f)
           ELSE Chunk("mismatch", value, value, f)
    [] c.kind = "stdLongYear" ->
         IF Len(value) < 4 \/ ~isDigit(value, 0) \/ ~AllDigits(Take(value, 4))
           THEN Chunk("mismatch", value, value, f)
           ELSE Chunk("", << >>, Drop(value, 4), [f EXCEPT !.year = atoi(Take(value, 4))])
    [] c.kind = "stdZeroMonth" ->
         LET g == getnum(value, TRUE)
         IN IF ~g.ok THEN Chunk("mismatch", value, value, f)
            ELSE IF g.n <= 0 \/ 12 < g.n THEN Chunk("range", g.rest, value, f)
            ELSE Chunk("", << >>, g.rest, [f EXCEPT !.month = g.n])
    [] c.kind = "stdZeroDay" ->
         LET g == getnum(value, TRUE)
         IN IF ~g.ok THEN Chunk("mismatch", value, value, f)
            ELSE Chunk("", << >>, g.rest, [f EXCEPT !.day = g.n])
    [] c.kind = "stdHour" ->
         LET g == getnum(value, FALSE)
         IN IF g.ok /\ 24 <= g.n THEN Chunk("range", g.rest, value, f)
            ELSE IF ~g.ok THEN Chunk("mismatch", value, value, f)
            ELSE Chunk("", << >>, g.rest, [f EXCEPT !.hour = g.n])
    [] c.kind = "stdZeroMinute" ->
         LET g == getnum(value, TRUE)
         IN IF g.ok /\ 60 <= g.n THEN Chunk("range", g.rest, value, f)
            ELSE IF ~g.ok THEN Chunk("mismatch", value, value, f)
            ELSE Chunk("", << >>, g.rest, [f EXCEPT !.min = g.n])
    [] c.kind = "stdZeroSecond" ->
         LET g == getnum(value, TRUE)
         IN IF g.ok /\ 60 <= g.n THEN Chunk("range", g.rest, value, f)
            ELSE IF ~g.ok THEN Chunk("mismatch", value, value, f)
            ELSE Chunk("", << >>, g.rest, [f EXCEPT !.sec = g.n])
    [] c.kind = "stdISO8601ColonTZ" ->
         LET z == ParseZone(value)
         IN IF z.range THEN Chunk("range", z.rest, value, f)
            ELSE IF ~z.ok THEN Chunk("mismatch", value, value, f)
            ELSE Chunk("", << >>, z.rest, [f EXCEPT !.off = z.off])

\* the loop of parse(): consume the layout chunk by chunk.  The text left
\* over when the layout is exhausted is reported as "extra text" inside the
\* loop; the day of the month is validated only after the loop.
RECURSIVE parseLoop(_, _, _)
parseLoop(chunks, value, f) ==
  IF chunks = << >> THEN
    IF value # << >> THEN ParseErr("extra", value)
    ELSE LET month == IF f.month < 0 THEN 1 ELSE f.month
             day   == IF f.day < 0 THEN 1 ELSE f.day
         IN IF day < 1 \/ day > daysIn(month, f.year)
              THEN ParseErr("dayrange", value)
              ELSE [err |-> "", elem |-> << >>,
                    t |-> Date(f.year, month, day, f.hour, f.min, f.sec, f.off)]
  ELSE
    LET s == parseChunk(Head(chunks), value, f)
    IN IF s.err # "" THEN ParseErr(s.err, s.elem)
       ELSE parseLoop(Tail(chunks), s.value, s.f)

\* time.Parse / time.ParseInLocation(layout, value, time.UTC)
Parse(chunks, value) == parseLoop(chunks, value, NoFields)

(***************************************************************************)
(* Variant A: parsePrefixFloat, parsePrefixedTime, parseTime               *)
(* (src/main.go:40-118).  A result is [t, suffix, err]; err = "" is nil.   *)
(***************************************************************************)
\* the result of parsePrefixFloat once strconv.ParseFloat returned f
prefixFloat(f, after) ==
  IF ~f.ok THEN [f |-> 0, suffix |-> << >>, err |-> "epoch"]
  ELSE [f |-> f.milli, suffix |-> TrimSpace(after), err |-> ""]

prefixCut(c) == prefixFloat(ParseFloat(c.before), c.after)

parsePrefixFloat(value) == prefixCut(Cut(value))

\* the split of value at the extra text elem that the first parse reported
splitAt(value, n) == [prefix |-> Take(value, n), suffix |-> Drop(value, n)]

\* the result of parsePrefixedTime once the first ParseInLocation returned r;
\* the error of the second ParseInLocation (of the prefix) is discarded
prefixedTime(r, layout, sp, trim) ==
  IF r.err = "extra"
    THEN [t |-> Parse(layout, sp.prefix).t,
          suffix |-> IF trim THEN TrimSpace(sp.suffix) ELSE sp.suffix,
          err |-> ""]
    ELSE [t |-> r.t, suffix |-> << >>, err |-> r.err]

prefixedSplit(r, layout, value, trim) ==
  prefixedTime(r, layout, splitAt(value, Len(value) - Len(r.elem)), trim)

\* parsePrefixedTime with the slip of not trimming the suffix
parsePrefixedTimeNoTrim(layout, value) ==
  prefixedSplit(Parse(layout, value), layout, value, FALSE)

parsePrefixedTime(layout, value) ==
  prefixedSplit(Parse(layout, value), layout, value, TRUE)

\* the layout each non-epoch case of parseTime hands to parsePrefixedTime
layoutOf(l, layout) ==
  CASE l = "rfc3339" -> RFC3339
    [] l = "timeonly" -> TimeOnly
    [] OTHER -> Verbatim(layout)

\* microseconds since the epoch of an epoch float in thousandths, so that
\* int64(f * 1000000) is f * 1000 and so on
epochMicro(l, f) ==
  CASE l = "unix" -> f * 1000
    [] l = "unix.milli" -> f
    [] l = "unix.micro" -> f \div 1000

epochTime(l, p) ==
  IF p.err # "" THEN [t |-> ZeroTime, suffix |-> << >>, err |-> p.err]
  ELSE [t |-> UnixMicro(epochMicro(l, p.f)), suffix |-> p.suffix, err |-> ""]

parseTimeLower(l, layout, value) ==
  IF l \in {"unix", "unix.milli", "unix.micro"}
    THEN epochTime(l, parsePrefixFloat(value))
    ELSE parsePrefixedTime(layoutOf(l, layout), value)

parseTime(layout, value) == parseTimeLower(ToLower(layout), layout, value)

(***************************************************************************)
(* Variant B: parseTime (src/main.go:358-417): the whole value must parse. *)
(***************************************************************************)
epochB(l, f) ==
  IF ~f.ok THEN [t |-> ZeroTime, err |-> "epoch"]
  ELSE [t |-> UnixMicro(epochMicro(l, f.milli)), err |-> ""]

wholeB(r) == [t |-> r.t, err |-> r.err]

parseTimeLowerB(l, format, value) ==
  IF l \in {"unix", "unix.milli", "unix.micro"}
    THEN epochB(l, ParseFloat(value))
    ELSE wholeB(Parse(layoutOf(l, format), value))

parseTimeB(format, value) == parseTimeLowerB(ToLower(format), format, value)

(***************************************************************************)
(* Input lines the model draws from.                                       *)
(***************************************************************************)
L0 == << "0" >>

L6 == << "6" >>

L10 == << "1", "0" >>

L3A == << "3", " ", "A" >>

L0B == << "0", " ", "B" >>

LBad == << "x" >>

T0900A == << "0", "9", ":", "0", "0", ":", "0", "0", " ", "A" >>

T0904A == << "0", "9", ":", "0", "4", ":", "0", "0", " ", "A" >>

T0904B == << "0", "9", ":", "0", "4", ":", "3", "0", " ", "B" >>

T0907 == << "0", "9", ":", "0", "7", ":", "0", "0" >>

T2561 == << "2", "5", ":", "6", "1", ":", "0", "0" >>

\* "2006-01-02T15:04:05Z"
R2006 ==
  << "2", "0", "0", "6", "-", "0", "1", "-", "0", "2", "T",
     "1", "5", ":", "0", "4", ":", "0", "5", "Z" >>

\* "2006-01-02T15:09:05Z up"
R2006up ==
  << "2", "0", "0", "6", "-", "0", "1", "-", "0", "2", "T",
     "1", "5", ":", "0", "9", ":", "0", "5", "Z", " ", "u", "p" >>

\* "2006-02-31T00:00:00Z x": there is no 31st of February
RFeb31x ==
  << "2", "0", "0", "6", "-", "0", "2", "-", "3", "1", "T",
     "0", "0", ":", "0", "0", ":", "0", "0", "Z", " ", "x" >>

\* "not-a-date"
LNotADate == << "n", "o", "t", "-", "a", "-", "d", "a", "t", "e" >>

(***************************************************************************)
(* Command-line options (struct Options / options) and the environment.    *)
(***************************************************************************)
\* time.ParseDuration on the interval strings of the model, in milliseconds
ParseDuration(s) ==
  CASE s = "5m" -> [err |-> "", d |-> 300000]
    [] s = "2ms" -> [err |-> "", d |-> 2]
    [] s = "3ms" -> [err |-> "", d |-> 3]
    [] s = "0s" -> [err |-> "", d |-> 0]
    [] s = "-2ms" -> [err |-> "", d |-> -2]
    [] OTHER -> [err |-> "invalid duration", d |-> 0]

\* time.LoadLocation
LoadLocation(name) == IF name = "UTC" THEN "" ELSE "unknown time zone"

Intervals == {"2ms", "3ms", "0s", "-2ms", "soon"}

\* --from / --to pairs tried with the epoch formats
Ranges ==
  { << << >>, << >> >>, << <<"3">>, << >> >>, << << >>, <<"6">> >>,
    << <<"3">>, <<"6">> >>, << LBad, << >> >> }

BarLengths == {3}

BinSizes == {0, 1}

\* time.Now().Year()
Years == {2023}

Opt(f, iv, tz, r, bl, bs) ==
  [Format |-> f, Interval |-> iv, TimeZone |-> tz, TimeFrom |-> r[1],
   TimeTo |-> r[2], BarLength |-> bl, BinSize |-> bs]

Options ==
  {Opt("unix.milli", iv, "UTC", r, bl, bs) :
     iv \in Intervals, r \in Ranges, bl \in BarLengths, bs \in BinSizes}
  \cup {Opt(f, "5m", tz, << << >>, << >> >>, bl, 0) :
     f \in {"timeonly", "RFC3339", "", "unix", "unix-milli"},
     tz \in {"UTC", "Mars/Phobos"}, bl \in BarLengths}

\* the lines a run may read, by format
Lines(format) ==
  CASE format = "unix.milli" -> {L0, L6, L10, L3A, LBad}
    [] format = "timeonly" -> {T0900A, T0904A, T0904B, T0907, T2561}
    [] format = "RFC3339" -> {R2006, R2006up, RFeb31x, LNotADate}
    [] format = "" -> {R2006, << >>}
    [] OTHER -> {L0, L10, L0B}

(***************************************************************************)
(* State.                                                                  *)
(***************************************************************************)
VARIABLES
  ver,        \* "A": src/main.go:167-322, "B": src/main.go:465-576
  opts,       \* the parsed options
  year,       \* B: time.Now().Year()
  pc,         \* where run() stands
  lines,      \* the lines the scanner has delivered so far
  items,      \* the parsed items
  total,      \* the printed total, -1 before it is printed
  gap,        \* A: bucket width
  wid,        \* B: bucket width
  timeFrom, timeTo,   \* A: display range
  min, max,           \* B: range
  timeMin, timeMax,   \* A: observed range
  tags,       \* A: label -> count
  bins,       \* A: truncated instant -> (label -> count); B: array of counts
  tagList,    \* A: labels by decreasing count
  binSize,    \* A: divisor of the bar scale
  tt,         \* A: the render loop's instant
  tmin, tmax, \* B: truncated range
  wmax,       \* B: largest bucket count
  i,          \* index of the loop the run is in (1-based)
  legend,     \* A: printed categories
  rows        \* printed rows

vars ==
  << ver, opts, year, pc, lines, items, total, gap, wid, timeFrom, timeTo, min, max,
     timeMin, timeMax, tags, bins, tagList, binSize, tt, tmin, tmax, wmax, i,
     legend, rows >>

Init ==
  /\ ver \in {"A", "B"}
  /\ opts \in Options
  /\ year \in Years
  /\ pc = "config"
  /\ lines = << >>
  /\ items = << >>
  /\ total = -1
  /\ gap = 0
  /\ wid = 0
  /\ timeFrom = ZeroTime
  /\ timeTo = ZeroTime
  /\ min = ZeroTime
  /\ max = ZeroTime
  /\ timeMin = ZeroTime
  /\ timeMax = ZeroTime
  /\ tags = << >>
  /\ bins = << >>
  /\ tagList = << >>
  /\ binSize = 0
  /\ tt = ZeroTime
  /\ tmin = ZeroTime
  /\ tmax = ZeroTime
  /\ wmax = 0
  /\ i = 0
  /\ legend = << >>
  /\ rows = << >>

(***************************************************************************)
(* Helpers on Go maps: a missing key reads as the zero value.              *)
(***************************************************************************)
Count(m, k) == IF k \in DOMAIN m THEN m[k] ELSE 0

\* Inc with the slip of storing 1 instead of adding 1
IncReset(m, k) == (k :> 1) @@ m

Inc(m, k) == IF k \in DOMAIN m THEN [m EXCEPT ![k] = @ + 1] ELSE (k :> 1) @@ m

\* bins[tt], nil when absent
BinAt(b, t) == IF t \in DOMAIN b THEN b[t] ELSE << >>

Min2(a, b) == IF a < b THEN a ELSE b

RECURSIVE SumOver(_, _)
SumOver(m, ks) ==
  IF ks = {} THEN 0
  ELSE LET k == CHOOSE x \in ks : TRUE IN m[k] + SumOver(m, ks \ {k})

\* the legend shows at most this many categories; the last one stands for
\* all the others when there are more
MaxCategories == 8

(***************************************************************************)
(* Variant A, run() (src/main.go:167-322).                                 *)
(***************************************************************************)
\* bound on the rows the model follows the render loop for
MaxRows == 8

\* what lines 168-199 make of the options: d is the parsed interval, f and
\* t the parsed --from and --to
configA(d, f, t) ==
  [bad  |-> \/ LoadLocation(opts.TimeZone) # ""
            \/ d.err # ""
            \/ (opts.TimeFrom # << >> /\ f.err # "")
            \/ (opts.TimeTo # << >> /\ t.err # ""),
   gap  |-> d.d,
   from |-> IF opts.TimeFrom # << >> THEN f.t ELSE ZeroTime,
   to   |-> IF opts.TimeTo # << >> THEN t.t ELSE ZeroTime]

startA(c) ==
  IF c.bad
    THEN pc' = "fatal" /\ UNCHANGED << gap, timeFrom, timeTo >>
    ELSE /\ pc' = "scan"
         /\ gap' = c.gap
         /\ timeFrom' = c.from
         /\ timeTo' = c.to

\* options, time zone, interval, --from and --to (lines 168-199)
ConfigA ==
  /\ pc = "config" /\ ver = "A"
  /\ startA(configA(ParseDuration(opts.Interval),
                    parseTime(opts.Format, opts.TimeFrom),
                    parseTime(opts.Format, opts.TimeTo)))
  /\ UNCHANGED << ver, opts, year, lines, items, total, wid, min, max, timeMin,
                  timeMax, tags, bins, tagList, binSize, tt, tmin, tmax, wmax, i,
                  legend, rows >>

\* the body of the scanner loop: r is what parseTime made of the line
appendItem(its, r) ==
  IF r.err # "" THEN its ELSE Append(its, [ts |-> r.t, text |-> r.suffix])

scanA(line, r) ==
  /\ lines' = Append(lines, line)
  /\ items' = appendItem(items, r)

\* one turn of the scanner loop (lines 220-226)
ScanA ==
  /\ pc = "scan" /\ ver = "A"
  /\ Len(lines) < MaxLines
  /\ \E line \in Lines(opts.Format) : scanA(line, parseTime(opts.Format, line))
  /\ UNCHANGED << ver, opts, year, pc, total, gap, wid, timeFrom, timeTo, min, max,
                  timeMin, timeMax, tags, bins, tagList, binSize, tt, tmin, tmax,
                  wmax, i, legend, rows >>

\* scanner.Err() (lines 227-229 and 526-528)
ReadError ==
  /\ pc = "scan"
  /\ pc' = "fatal"
  /\ UNCHANGED << ver, opts, year, lines, items, total, gap, wid, timeFrom, timeTo,
                  min, max, timeMin, timeMax, tags, bins, tagList, binSize, tt, tmin,
                  tmax, wmax, i, legend, rows >>

\* end of input: the total, and the start of the aggregation (lines 231-240)
EofA ==
  /\ pc = "scan" /\ ver = "A"
  /\ total' = Len(items)
  /\ IF Len(items) = 0
       THEN pc' = "done" /\ UNCHANGED << timeMin, timeMax, i >>
       ELSE /\ pc' = "aggregate"
            /\ timeMin' = items[1].ts
            /\ timeMax' = items[1].ts
            /\ i' = 1
  /\ UNCHANGED << ver, opts, year, lines, items, gap, wid, timeFrom, timeTo, min, max,
                  tags, bins, tagList, binSize, tt, tmin, tmax, wmax, legend, rows >>

\* addItem with the slip of comparing timeMin the wrong way round
addItemLatestMin(s, item, g) ==
  LET t == Truncate(item.ts, g)
  IN [timeMin |-> IF After(item.ts, s.timeMin) THEN item.ts ELSE s.timeMin,
      timeMax |-> IF After(item.ts, s.timeMax) THEN item.ts ELSE s.timeMax,
      bins    |-> IF t \in DOMAIN s.bins
                    THEN [s.bins EXCEPT ![t] = Inc(@, item.text)]
                    ELSE (t :> Inc(<< >>, item.text)) @@ s.bins,
      tags    |-> Inc(s.tags, item.text)]

\* addItem with the slip of never lowering timeMin below the first item
addItemKeepsFirst(s, item, g) ==
  LET t == Truncate(item.ts, g)
  IN [timeMin |-> s.timeMin,
      timeMax |-> IF After(item.ts, s.timeMax) THEN item.ts ELSE s.timeMax,
      bins    |-> IF t \in DOMAIN s.bins
                    THEN [s.bins EXCEPT ![t] = Inc(@, item.text)]
                    ELSE (t :> Inc(<< >>, item.text)) @@ s.bins,
      tags    |-> Inc(s.tags, item.text)]

\* the body of the aggregation loop for one item (lines 242-257), on the
\* aggregate [timeMin, timeMax, tags, bins]
addItem(s, item, g) ==
  LET t == Truncate(item.ts, g)
  IN [timeMin |-> IF Before(item.ts, s.timeMin) THEN item.ts ELSE s.timeMin,
      timeMax |-> IF After(item.ts, s.timeMax) THEN item.ts ELSE s.timeMax,
      bins    |-> IF t \in DOMAIN s.bins
                    THEN [s.bins EXCEPT ![t] = Inc(@, item.text)]
                    ELSE (t :> Inc(<< >>, item.text)) @@ s.bins,
      tags    |-> Inc(s.tags, item.text)]

AggregateA ==
  /\ pc = "aggregate" /\ ver = "A"
  /\ i <= Len(items)
  /\ LET s == addItem([timeMin |-> timeMin, timeMax |-> timeMax, tags |-> tags,
                       bins |-> bins], items[i], gap)
     IN /\ timeMin' = s.timeMin
        /\ timeMax' = s.timeMax
        /\ tags' = s.tags
        /\ bins' = s.bins
  /\ i' = i + 1
  /\ UNCHANGED << ver, opts, year, pc, lines, items, total, gap, wid, timeFrom, timeTo,
                  min, max, tagList, binSize, tt, tmin, tmax, wmax, legend, rows >>

\* the orders sort.Slice may leave the labels in: by decreasing count, labels
\* of equal count in any order (the sort is not stable and starts from the
\* iteration order of a map)
RECURSIVE sortedOrders(_, _)
sortedOrders(tg, ks) ==
  IF ks = {} THEN {<< >>}
  ELSE UNION {{<< k >> \o l : l \in sortedOrders(tg, ks \ {k})} :
                k \in {x \in ks : \A y \in ks : tg[x] >= tg[y]}}

SortedTagLists(tg) == sortedOrders(tg, DOMAIN tg)

\* the largest count of one label in one bin (lines 288-294)
MaxCell(b) ==
  LET cells == UNION {{b[t][k] : k \in DOMAIN b[t]} : t \in DOMAIN b}
  IN IF cells = {} THEN 0 ELSE CHOOSE c \in cells : \A d \in cells : d <= c

\* the categories printed (lines 274-284)
Legend(tl) ==
  LET size == Min2(Len(tl), MaxCategories)
  IN IF size # 1 \/ tl[1] # << >>
       THEN [k \in 1..size |->
               IF Len(tl) <= MaxCategories - 1 \/ k - 1 # MaxCategories - 1
                 THEN tl[k] ELSE << ".", ".", ".", "o", "t", "h", "e", "r", "s" >>]
       ELSE << >>

\* the display range: --from and --to, the observed range where they are
\* not set (lines 260-265)
displayRange(from, to, tMin, tMax, g) ==
  [from |-> IF IsZero(from) THEN Truncate(tMin, g) ELSE from,
   to   |-> IF IsZero(to) THEN Truncate(tMax, g) ELSE to]

\* display range, categories and bar scale (lines 260-298)
FinishA ==
  /\ pc = "aggregate" /\ ver = "A"
  /\ i > Len(items)
  /\ timeFrom' = displayRange(timeFrom, timeTo, timeMin, timeMax, gap).from
  /\ timeTo' = displayRange(timeFrom, timeTo, timeMin, timeMax, gap).to
  /\ tagList' \in SortedTagLists(tags)
  /\ legend' = Legend(tagList')
  /\ binSize' = IF opts.BinSize = 0 THEN MaxCell(bins) ELSE opts.BinSize
  /\ tt' = Truncate(timeFrom', gap)
  /\ i' = 0
  /\ pc' = "render"
  /\ UNCHANGED << ver, opts, year, lines, items, total, gap, wid, min, max, timeMin,
                  timeMax, tags, bins, tmin, tmax, wmax, rows >>

\* the rows of one bin: one per category (lines 300-317)
RowsA(t, b, tl, barLength, size) ==
  LET bin == BinAt(b, t)
      n   == Min2(Len(tl), MaxCategories)
  IN [k \in 1..n |->
        [tt    |-> t,
         i     |-> k - 1,
         count |-> IF k - 1 = MaxCategories - 1 /\ Len(tl) > MaxCategories - 1
                     THEN SumOver([j \in (MaxCategories)..Len(tl) |-> Count(bin, tl[j])],
                                  (MaxCategories)..Len(tl))
                     ELSE Count(bin, tl[k]),
         bar   |-> GoDiv(barLength * Count(bin, tl[k]), size)]]

\* the condition of the render loop (line 299)
MoreRows == Before(tt, Add(Truncate(timeTo, gap), gap))

\* one turn of the render loop (lines 299-318).  With gap <= 0 the loop
\* variable never advances past the end: the loop does not terminate.
\* strings.Repeat panics on a negative count.
RenderA ==
  /\ pc = "render" /\ ver = "A"
  /\ MoreRows
  /\ LET new == RowsA(tt, bins, tagList, opts.BarLength, binSize)
     IN IF \E k \in DOMAIN new : new[k].bar < 0
          THEN pc' = "panic" /\ UNCHANGED << rows, tt, i >>
        ELSE IF i >= MaxRows
          THEN pc' = "flood" /\ UNCHANGED << rows, tt, i >>
        ELSE /\ rows' = rows \o new
             /\ IF gap <= 0
                  THEN pc' = "hang" /\ UNCHANGED << tt, i >>
                  ELSE pc' = pc /\ tt' = Add(tt, gap) /\ i' = i + 1
  /\ UNCHANGED << ver, opts, year, lines, items, total, gap, wid, timeFrom, timeTo,
                  min, max, timeMin, timeMax, tags, bins, tagList, binSize, tmin, tmax,
                  wmax, legend >>

\* the loop is over: flush and return (lines 319-321)
ExitA ==
  /\ pc = "render" /\ ver = "A"
  /\ ~MoreRows
  /\ pc' = "done"
  /\ UNCHANGED << ver, opts, year, lines, items, total, gap, wid, timeFrom, timeTo,
                  min, max, timeMin, timeMax, tags, bins, tagList, binSize, tt, tmin,
                  tmax, wmax, i, legend, rows >>

(***************************************************************************)
(* Variant B, run() (src/main.go:465-576).                                 *)
(***************************************************************************)
\* time zone, interval, --from and --to; a --from or --to that does not
\* parse is ignored (lines 472-494)
configB(d, f, t) ==
  [bad |-> LoadLocation(opts.TimeZone) # "" \/ d.err # "",
   wid |-> d.d,
   min |-> IF opts.TimeFrom # << >> /\ f.err = "" THEN f.t ELSE ZeroTime,
   max |-> IF opts.TimeTo # << >> /\ t.err = "" THEN t.t ELSE ZeroTime]

startB(c) ==
  IF c.bad
    THEN pc' = "fatal" /\ UNCHANGED << wid, min, max >>
    ELSE /\ pc' = "scan"
         /\ wid' = c.wid
         /\ min' = c.min
         /\ max' = c.max

ConfigB ==
  /\ pc = "config" /\ ver = "B"
  /\ startB(configB(ParseDuration(opts.Interval),
                    parseTimeB(opts.Format, opts.TimeFrom),
                    parseTimeB(opts.Format, opts.TimeTo)))
  /\ UNCHANGED << ver, opts, year, lines, items, total, gap, timeFrom, timeTo, timeMin,
                  timeMax, tags, bins, tagList, binSize, tt, tmin, tmax, wmax, i,
                  legend, rows >>

\* a parsed instant of year 0 is moved to the current year (lines 521-523)
thisYear(t) == IF YearIsZero(t) THEN AddYears(t, year) ELSE t

\* the body of the scanner loop: r is what parseTime made of the line
scanB(line, r) ==
  /\ lines' = Append(lines, line)
  /\ items' = IF r.err = "" THEN Append(items, thisYear(r.t)) ELSE items

\* one turn of the scanner loop (lines 516-525)
ScanB ==
  /\ pc = "scan" /\ ver = "B"
  /\ Len(lines) < MaxLines
  /\ \E line \in Lines(opts.Format) :
       scanB(line, parseTimeB(opts.Format, TrimSpace(line)))
  /\ UNCHANGED << ver, opts, year, pc, total, gap, wid, timeFrom, timeTo, min, max,
                  timeMin, timeMax, tags, bins, tagList, binSize, tt, tmin, tmax,
                  wmax, i, legend, rows >>

\* end of input: the total, and the defaults of the range (lines 530-541)
EofB ==
  /\ pc = "scan" /\ ver = "B"
  /\ total' = Len(items)
  /\ IF Len(items) = 0
       THEN pc' = "done" /\ UNCHANGED << min, max, i >>
       ELSE /\ pc' = "minmax"
            /\ min' = IF Equal(min, ZeroTime) THEN items[1] ELSE min
            /\ max' = IF Equal(max, ZeroTime) THEN items[1] ELSE max
            /\ i' = 1
  /\ UNCHANGED << ver, opts, year, lines, items, gap, wid, timeFrom, timeTo, timeMin,
                  timeMax, tags, bins, tagList, binSize, tt, tmin, tmax, wmax, legend,
                  rows >>

\* widen with the slip of never raising max
widenMinOnly(r, item) ==
  [min |-> IF After(r.min, item) THEN item ELSE r.min,
   max |-> r.max]

\* the body of the range loop for one item (lines 544-549)
widen(r, item) ==
  [min |-> IF After(r.min, item) THEN item ELSE r.min,
   max |-> IF Before(r.max, item) THEN item ELSE r.max]

MinMaxB ==
  /\ pc = "minmax" /\ ver = "B"
  /\ i <= Len(items)
  /\ LET r == widen([min |-> min, max |-> max], items[i])
     IN min' = r.min /\ max' = r.max
  /\ i' = i + 1
  /\ UNCHANGED << ver, opts, year, pc, lines, items, total, gap, wid, timeFrom, timeTo,
                  timeMin, timeMax, tags, bins, tagList, binSize, tt, tmin, tmax, wmax,
                  legend, rows >>

\* (t.UnixMicro() - u.UnixMicro()) / wid.Microseconds(): both sides are in
\* milliseconds here, the quotient is the same
indexOf(t, u, w) == GoDiv(Sub(t, u), w)

\* the truncated range and the array of bins (lines 552-556); the division
\* panics when the interval is zero, make() when the length is negative
AllocB ==
  /\ pc = "minmax" /\ ver = "B"
  /\ i > Len(items)
  /\ tmin' = Truncate(min, wid)
  /\ tmax' = Truncate(max, wid)
  /\ IF wid = 0 \/ indexOf(tmax', tmin', wid) + 1 < 0
       THEN pc' = "panic" /\ UNCHANGED << bins, i >>
       ELSE /\ bins' = [k \in 1..(indexOf(tmax', tmin', wid) + 1) |-> 0]
            /\ i' = 1
            /\ pc' = "aggregate"
  /\ wmax' = 0
  /\ UNCHANGED << ver, opts, year, lines, items, total, gap, wid, timeFrom, timeTo,
                  min, max, timeMin, timeMax, tags, tagList, binSize, tt, legend,
                  rows >>

\* the body of the counting loop for one item (lines 558-562), on
\* [bins, wmax, ok]; an index outside the array panics (ok = FALSE)
countItem(s, item, base, w) ==
  LET idx == indexOf(item, base, w)
  IN IF idx < 0 \/ idx >= Len(s.bins)
       THEN [s EXCEPT !.ok = FALSE]
       ELSE LET b == [s.bins EXCEPT ![idx + 1] = @ + 1]
            IN [bins |-> b,
                wmax |-> IF b[idx + 1] > s.wmax THEN b[idx + 1] ELSE s.wmax,
                ok   |-> TRUE]

FillB ==
  /\ pc = "aggregate" /\ ver = "B"
  /\ i <= Len(items)
  /\ LET s == countItem([bins |-> bins, wmax |-> wmax, ok |-> TRUE], items[i], tmin, wid)
     IN IF ~s.ok
          THEN pc' = "panic" /\ UNCHANGED << bins, wmax, i >>
          ELSE /\ bins' = s.bins
               /\ wmax' = s.wmax
               /\ i' = i + 1
               /\ pc' = pc
  /\ UNCHANGED << ver, opts, year, lines, items, total, gap, wid, timeFrom, timeTo,
                  min, max, timeMin, timeMax, tags, tagList, binSize, tt, tmin, tmax,
                  legend, rows >>

\* the time range is printed and the table opened (lines 564-566)
RangeB ==
  /\ pc = "aggregate" /\ ver = "B"
  /\ i > Len(items)
  /\ i' = 0
  /\ pc' = "render"
  /\ UNCHANGED << ver, opts, year, lines, items, total, gap, wid, timeFrom, timeTo,
                  min, max, timeMin, timeMax, tags, bins, tagList, binSize, tt, tmin,
                  tmax, wmax, legend, rows >>

\* one row (lines 567-572); here i is the 0-based idx
RenderB ==
  /\ pc = "render" /\ ver = "B"
  /\ i < Len(bins)
  /\ IF wmax = 0 \/ GoDiv(opts.BarLength * bins[i + 1], wmax) < 0
       THEN pc' = "panic" /\ UNCHANGED << rows, i >>
       ELSE /\ rows' = Append(rows, [tt    |-> Add(tmin, wid * i),
                                     i     |-> 0,
                                     count |-> bins[i + 1],
                                     bar   |-> GoDiv(opts.BarLength * bins[i + 1], wmax)])
            /\ i' = i + 1
            /\ pc' = pc
  /\ UNCHANGED << ver, opts, year, lines, items, total, gap, wid, timeFrom, timeTo,
                  min, max, timeMin, timeMax, tags, bins, tagList, binSize, tt, tmin,
                  tmax, wmax, legend >>

\* the loop is over: flush and return (lines 573-575)
ExitB ==
  /\ pc = "render" /\ ver = "B"
  /\ i >= Len(bins)
  /\ pc' = "done"
  /\ UNCHANGED << ver, opts, year, lines, items, total, gap, wid, timeFrom, timeTo,
                  min, max, timeMin, timeMax, tags, bins, tagList, binSize, tt, tmin,
                  tmax, wmax, i, legend, rows >>

Next ==
  \/ ConfigA \/ ScanA \/ EofA \/ AggregateA \/ FinishA \/ RenderA \/ ExitA
  \/ ConfigB \/ ScanB \/ EofB \/ MinMaxB \/ AllocB \/ FillB \/ RangeB \/ RenderB
  \/ ExitB
  \/ ReadError

Spec == Init /\ [][Next]_vars

(***************************************************************************)
(* Runs of variant A on inputs with many labels.  The scanner loop is      *)
(* taken as one step, on a whole input: label j of the input occurs j      *)
(* times, so that the labels have distinct totals.                         *)
(***************************************************************************)
\* bound on the number of distinct labels of an input
MaxLabels == 9

Letter == << "a", "b", "c", "d", "e", "f", "g", "h", "i", "j", "k", "l" >>

\* the line "<t> <j-th letter>"
LabelledLine(t, j) == t \o << " ", Letter[j] >>

\* the input with the labels 1..n, label j on j lines; with spread the
\* lines of a label alternate between 0 ms and 6 ms
RECURSIVE LabelledInput(_, _)
LabelledInput(n, spread) ==
  IF n = 0 THEN << >>
  ELSE LabelledInput(n - 1, spread) \o
       [k \in 1..n |-> LabelledLine(IF spread /\ k % 2 = 0 THEN L6 ELSE L0, n)]

\* the scanner loop over a whole input (lines 220-226)
RECURSIVE scanAll(_, _, _, _)
scanAll(format, ls, k, its) ==
  IF k > Len(ls) THEN its
  ELSE scanAll(format, ls, k + 1, appendItem(its, parseTime(format, ls[k])))

ReadAllA ==
  /\ pc = "scan" /\ ver = "A"
  /\ lines = << >>
  /\ \E n \in 1..MaxLabels : \E spread \in BOOLEAN :
       /\ lines' = LabelledInput(n, spread)
       /\ items' = scanAll(opts.Format, lines', 1, items)
  /\ UNCHANGED << ver, opts, year, pc, total, gap, wid, timeFrom, timeTo, min, max,
                  timeMin, timeMax, tags, bins, tagList, binSize, tt, tmin, tmax,
                  wmax, i, legend, rows >>

LabelOptions ==
  {Opt("unix.milli", iv, "UTC", << << >>, << >> >>, bl, bs) :
     iv \in {"2ms", "3ms"}, bl \in BarLengths, bs \in BinSizes}

LabelInit == Init /\ ver = "A" /\ opts \in LabelOptions

LabelNext ==
  \/ ConfigA \/ ReadAllA \/ EofA \/ AggregateA \/ FinishA \/ RenderA \/ ExitA

LabelSpec == LabelInit /\ [][LabelNext]_vars

(***************************************************************************)
(* The loops as a whole, for any list of items.                            *)
(***************************************************************************)
\* variant A: the aggregation loop over its (lines 236-258)
RECURSIVE addItems(_, _, _, _)
addItems(s, its, k, g) ==
  IF k > Len(its) THEN s ELSE addItems(addItem(s, its[k], g), its, k + 1, g)

aggregateAll(its, g) ==
  addItems([timeMin |-> its[1].ts, timeMax |-> its[1].ts, tags |-> << >>, bins |-> << >>],
           its, 1, g)

\* variant B: the range loop and the counting loop over its (lines 535-563);
\* cmin and cmax are the range left by --from and --to
RECURSIVE widenAll(_, _, _)
widenAll(r, its, k) ==
  IF k > Len(its) THEN r ELSE widenAll(widen(r, its[k]), its, k + 1)

RECURSIVE countAll(_, _, _, _, _)
countAll(s, its, k, base, w) ==
  IF k > Len(its) \/ ~s.ok THEN s
  ELSE countAll(countItem(s, its[k], base, w), its, k + 1, base, w)

runB(its, cmin, cmax, w) ==
  LET r    == widenAll([min |-> IF Equal(cmin, ZeroTime) THEN its[1] ELSE cmin,
                        max |-> IF Equal(cmax, ZeroTime) THEN its[1] ELSE cmax], its, 1)
      base == Truncate(r.min, w)
      top  == Truncate(r.max, w)
  IN IF w = 0 \/ indexOf(top, base, w) + 1 < 0
       THEN [tmin |-> base, tmax |-> top, bins |-> << >>, ok |-> FALSE]
       ELSE LET c == countAll([bins |-> [k \in 1..(indexOf(top, base, w) + 1) |-> 0],
                               wmax |-> 0, ok |-> TRUE], its, 1, base, w)
            IN [tmin |-> base, tmax |-> top, bins |-> c.bins, ok |-> c.ok]

\* the range --from and --to leave before the input is read
ConfiguredA ==
  configA(ParseDuration(opts.Interval),
          parseTime(opts.Format, opts.TimeFrom),
          parseTime(opts.Format, opts.TimeTo))

ConfiguredB ==
  configB(ParseDuration(opts.Interval),
          parseTimeB(opts.Format, opts.TimeFrom),
          parseTimeB(opts.Format, opts.TimeTo))

(***************************************************************************)
(* Vocabulary of the properties.                                           *)
(***************************************************************************)
Perms(n) == {p \in [1..n -> 1..n] : \A a, b \in 1..n : a # b => p[a] # p[b]}

Permute(its, p) == [k \in 1..Len(its) |-> its[p[k]]]

\* the instant of the k-th item
InstantOf(k) == IF ver = "A" THEN items[k].ts ELSE items[k]

\* the label of the k-th item (variant B has none)
LabelOf(k) == IF ver = "A" THEN items[k].text ELSE << >>

Width == IF ver = "A" THEN gap ELSE wid

Earliest ==
  InstantOf(CHOOSE k \in 1..Len(items) :
              \A j \in 1..Len(items) : ~Before(InstantOf(j), InstantOf(k)))

Latest ==
  InstantOf(CHOOSE k \in 1..Len(items) :
              \A j \in 1..Len(items) : ~After(InstantOf(j), InstantOf(k)))

\* floor((t - base) / width)
FloorIndex(t, base, w) == Sub(t, base) \div w

NoRange == opts.TimeFrom = << >> /\ opts.TimeTo = << >>

\* the aggregation is over
AggregatedA == ver = "A" /\ pc \in {"render", "done", "hang", "flood"} /\ Len(items) > 0

AggregatedB == ver = "B" /\ pc \in {"render", "done"} /\ Len(items) > 0

\* the sum of all counts of all buckets
SumBins ==
  IF ver = "A"
    THEN SumOver([t \in DOMAIN bins |-> SumOver(bins[t], DOMAIN bins[t])], DOMAIN bins)
    ELSE SumOver(bins, DOMAIN bins)

\* the counts of the printed rows, in order
RowCounts == [k \in 1..Len(rows) |-> rows[k].count]

(***************************************************************************)
(* C1.  For a fixed positive width, aggregating the same items in any      *)
(* order gives the same bins: the same base and end of the range (hence    *)
(* the same number of buckets) and the same count of every label in every  *)
(* bucket.  The run's own result is compared with the result of the loops  *)
(* on every permutation of its items.                                      *)
(***************************************************************************)
InsertionOrderIrrelevant ==
  /\ (AggregatedA /\ gap > 0) =>
       \A p \in Perms(Len(items)) :
         LET a == aggregateAll(Permute(items, p), gap)
             r == displayRange(ConfiguredA.from, ConfiguredA.to, a.timeMin, a.timeMax, gap)
         IN /\ a.bins = bins /\ a.tags = tags
            /\ a.timeMin = timeMin /\ a.timeMax = timeMax
            /\ r.from = timeFrom /\ r.to = timeTo
  /\ (AggregatedB /\ wid > 0) =>
       \A p \in Perms(Len(items)) :
         LET b == runB(Permute(items, p), ConfiguredB.min, ConfiguredB.max, wid)
         IN b.ok /\ b.tmin = tmin /\ b.tmax = tmax /\ b.bins = bins

\* a finished run whose items did not arrive in chronological order
OutOfOrderRun ==
  /\ pc = "done" /\ Width > 0 /\ Len(items) >= 3
  /\ Before(InstantOf(2), InstantOf(1))
  /\ Before(InstantOf(2), InstantOf(3))

(***************************************************************************)
(* C2.  With a positive width and no explicit range, the bins are dense:   *)
(* the base is the earliest instant truncated to the width, every item is  *)
(* counted in bucket floor((t - base) / width), that index lies in         *)
(* [0, len-1], there is a (possibly empty) bucket and a printed row for    *)
(* every index up to the one of the latest instant, and no index is ever   *)
(* out of range.  Inserting T, T-3w, T+2w in any order gives six buckets   *)
(* with one count at indices 0, 3 and 5.                                   *)
(***************************************************************************)
ItemsAt(j, base, label) ==
  Cardinality({k \in 1..Len(items) :
                 FloorIndex(InstantOf(k), base, Width) = j /\ LabelOf(k) = label})

DenseA ==
  LET base == Truncate(Earliest, gap)
      n    == FloorIndex(Latest, base, gap) + 1
      m    == Len(tagList)
  IN /\ timeFrom = base
     /\ \A k \in 1..Len(items) : FloorIndex(InstantOf(k), base, gap) \in 0..(n - 1)
     /\ DOMAIN bins \subseteq {Add(base, j * gap) : j \in 0..(n - 1)}
     /\ \A j \in 0..(n - 1) : \A l \in DOMAIN tags :
          Count(BinAt(bins, Add(base, j * gap)), l) = ItemsAt(j, base, l)
     /\ Len(rows) = n * m
     /\ \A j \in 0..(n - 1) : \A k \in 1..m :
          /\ rows[j * m + k].tt = Add(base, j * gap)
          /\ rows[j * m + k].count = ItemsAt(j, base, tagList[k])

DenseB ==
  LET n == FloorIndex(Latest, tmin, wid) + 1
  IN /\ tmin = Truncate(Earliest, wid)
     /\ Len(bins) = n
     /\ \A k \in 1..Len(items) : FloorIndex(InstantOf(k), tmin, wid) \in 0..(n - 1)
     /\ \A j \in 0..(n - 1) : bins[j + 1] = ItemsAt(j, tmin, << >>)
     /\ pc = "done" =>
          /\ Len(rows) = n
          /\ \A j \in 0..(n - 1) :
               rows[j + 1].tt = Add(tmin, j * wid) /\ rows[j + 1].count = bins[j + 1]

\* the lines "6", "0", "10" with a width of 2ms: T, T - 3w, T + 2w
ThreeSpread ==
  /\ opts.Format = "unix.milli" /\ opts.Interval = "2ms" /\ NoRange
  /\ \E p \in Perms(3) : lines = Permute(<< L6, L0, L10 >>, p)

BinsAreDense ==
  /\ (ver = "A" /\ pc = "done" /\ gap > 0 /\ NoRange /\ Len(items) > 0) => DenseA
  /\ (AggregatedB /\ wid > 0 /\ NoRange) => DenseB
  /\ (ver = "B" /\ wid > 0) => pc # "panic"
  /\ (ThreeSpread /\ pc = "done") =>
       /\ RowCounts = << 1, 0, 0, 1, 0, 1 >>
       /\ rows[1].tt = UnixMicro(0)

\* T, T - 3w, T + 2w were read in this order and the six rows are printed
ThreeSpreadDone ==
  /\ pc = "done" /\ ThreeSpread /\ lines = << L6, L0, L10 >> /\ Len(rows) = 6

(***************************************************************************)
(* C3.  The counts of all buckets add up to the printed total, which is    *)
(* the number of items, one for every line that parsed; while the          *)
(* aggregation loop runs the counts add up to the items taken so far.      *)
(***************************************************************************)
ParsedOk(line) ==
  IF ver = "A" THEN parseTime(opts.Format, line).err = ""
  ELSE parseTimeB(opts.Format, TrimSpace(line)).err = ""

CountsSumToTotal ==
  /\ Len(items) = Cardinality({k \in 1..Len(lines) : ParsedOk(lines[k])})
  /\ total >= 0 => total = Len(items)
  /\ (AggregatedA \/ AggregatedB \/ pc = "done") => SumBins = total
  /\ pc = "aggregate" => SumBins = i - 1

\* a finished run: one line was skipped, the two others fell into the same
\* bucket under the same label
TwoInOneBucket ==
  /\ pc = "done" /\ ver = "A" /\ Len(lines) = 3 /\ total = 2
  /\ \E t \in DOMAIN bins : \E l \in DOMAIN bins[t] : bins[t][l] = 2

(***************************************************************************)
(* C4.  The bars of the series of one bucket add up to exactly             *)
(* L = floor(barLength * N / maxBucketTotal), N the total of the bucket.   *)
(* Stated for the default bar scale (no --bin-size).                       *)
(***************************************************************************)
RowsOf(t) == {k \in 1..Len(rows) : rows[k].tt = t}

BarsOf(t) == SumOver([k \in RowsOf(t) |-> rows[k].bar], RowsOf(t))

BucketTotal(t) ==
  IF ver = "A" THEN SumOver(BinAt(bins, t), DOMAIN BinAt(bins, t))
  ELSE SumOver([k \in RowsOf(t) |-> rows[k].count], RowsOf(t))

MaxBucketTotal ==
  LET totals == IF ver = "A" THEN {BucketTotal(t) : t \in DOMAIN bins}
                ELSE {bins[k] : k \in DOMAIN bins}
  IN CHOOSE n \in totals : \A m \in totals : m <= n

BarsSumToTarget ==
  (pc = "done" /\ Len(items) > 0 /\ Width > 0 /\ opts.BinSize = 0) =>
    \A k \in 1..Len(rows) :
      BucketTotal(rows[k].tt) > 0 =>
        BarsOf(rows[k].tt) = (opts.BarLength * BucketTotal(rows[k].tt)) \div MaxBucketTotal

(***************************************************************************)
(* C5.  A numeric token resolves under the epoch tags without error:       *)
(* under "unix" to that many seconds after the epoch, under "unix-milli"   *)
(* to that many milliseconds after the epoch.                              *)
(***************************************************************************)
NumberOf(line) == IF line = L10 THEN 10 ELSE 0

EpochTagsResolve ==
  (/\ opts.Format \in {"unix", "unix-milli"} /\ pc = "scan"
   /\ \A k \in 1..Len(lines) : lines[k] \in {L0, L10}) =>
    /\ Len(items) = Len(lines)
    /\ \A k \in 1..Len(lines) :
         InstantOf(k) = [day |-> EpochDay,
                         ms  |-> IF opts.Format = "unix" THEN NumberOf(lines[k]) * 1000
                                 ELSE NumberOf(lines[k])]

(***************************************************************************)
(* C6.  With the empty format the token "2006-01-02T15:04:05Z" resolves    *)
(* without error to 2006-01-02 15:04:05 UTC, as it does under rfc3339.     *)
(***************************************************************************)
AutoDetectMatchesNamed ==
  (opts.Format = "" /\ pc = "scan" /\ Len(lines) >= 1 /\ lines[1] = R2006) =>
    /\ Len(items) >= 1
    /\ InstantOf(1) = parseTime("rfc3339", R2006).t
    /\ InstantOf(1) = Date(2006, 1, 2, 15, 4, 5, 0)

(***************************************************************************)
(* C7.  Variant A: for a line whose leading whitespace-separated fields    *)
(* form a timestamp, the item holds the instant of the shortest such       *)
(* prefix of fields and the rest of the line as its label.  The lines      *)
(* "09:00:00 A", "09:04:00 A", "09:04:30 B" with format timeonly and       *)
(* interval 5m give total 3 and the single bucket 09:00:00 with A: 2 and   *)
(* B: 1.                                                                   *)
(***************************************************************************)
\* the whitespace-separated fields of a line
RECURSIVE Fields(_)
Fields(s) ==
  LET t == TrimSpace(s)
      c == Cut(t)
  IN IF t = << >> THEN << >> ELSE << c.before >> \o Fields(c.after)

\* fields joined by single spaces
RECURSIVE Join(_)
Join(fs) ==
  IF fs = << >> THEN << >>
  ELSE IF Len(fs) = 1 THEN fs[1]
  ELSE fs[1] \o << " " >> \o Join(Tail(fs))

\* the numbers of leading fields that resolve as one token under the format
LeadingPrefixes(line) ==
  {k \in 1..Len(Fields(line)) :
     parseTimeB(opts.Format, Join(Take(Fields(line), k))).err = ""}

ShortestPrefix(line) ==
  CHOOSE k \in LeadingPrefixes(line) : \A j \in LeadingPrefixes(line) : k <= j

Extracted(line) ==
  [ts   |-> parseTimeB(opts.Format, Join(Take(Fields(line), ShortestPrefix(line)))).t,
   text |-> Join(Drop(Fields(line), ShortestPrefix(line)))]

\* the index in items of the item of the k-th line
PositionOf(k) == Cardinality({j \in 1..k : ParsedOk(lines[j])})

NineOClock == Date(0, 1, 1, 9, 0, 0, 0)

ThreeLines ==
  /\ ver = "A" /\ opts.Format = "timeonly" /\ opts.Interval = "5m"
  /\ lines = << T0900A, T0904A, T0904B >>

LeadingTimestampAndLabel ==
  /\ ver = "A" =>
       \A k \in 1..Len(lines) :
         LeadingPrefixes(lines[k]) # {} =>
           /\ ParsedOk(lines[k])
           /\ PositionOf(k) <= Len(items)
           /\ items[PositionOf(k)] = Extracted(lines[k])
  /\ (ThreeLines /\ pc = "done") =>
       /\ total = 3
       /\ DOMAIN bins = {NineOClock}
       /\ bins[NineOClock] = (<< "A" >> :> 2) @@ (<< "B" >> :> 1)
       /\ \A k \in 1..Len(rows) : rows[k].tt = NineOClock

\* the three lines were read and the run is over
ThreeLinesDone == ThreeLines /\ pc = "done" /\ Len(rows) = 2

(***************************************************************************)
(* C8.  A line that does not parse is skipped: it adds no item and does    *)
(* not count in the total.  A line does not parse when no leading part of  *)
(* it is a timestamp under the format.                                     *)
(***************************************************************************)
FailsToParse(line) ==
  \A n \in 0..Len(line) : parseTimeB(opts.Format, Take(line, n)).err # ""

FailedLinesAreSkipped ==
  LET good == Cardinality({k \in 1..Len(lines) : ~FailsToParse(lines[k])})
  IN Len(items) <= good /\ total <= good

(***************************************************************************)
(* C9.  An interval that is zero or negative is a fatal configuration      *)
(* error: no run leaves the configuration step with a width <= 0.          *)
(***************************************************************************)
NonPositiveIntervalRejected == pc \notin {"config", "fatal"} => Width > 0

(***************************************************************************)
(* C10.  When --from (--to) is given, the printed rows start (end) exactly *)
(* at the given instant truncated to the width: no row lies before --from  *)
(* or after --to, whatever the data.                                       *)
(***************************************************************************)
GivenFrom == opts.TimeFrom # << >> /\ parseTimeB(opts.Format, opts.TimeFrom).err = ""

GivenTo == opts.TimeTo # << >> /\ parseTimeB(opts.Format, opts.TimeTo).err = ""

FromBucket == Truncate(parseTimeB(opts.Format, opts.TimeFrom).t, Width)

ToBucket == Truncate(parseTimeB(opts.Format, opts.TimeTo).t, Width)

ExplicitRangeIsExact ==
  (pc = "done" /\ Len(items) > 0 /\ Width > 0) =>
    /\ GivenFrom =>
         /\ \A k \in 1..Len(rows) : ~Before(rows[k].tt, FromBucket)
         /\ rows # << >> => rows[1].tt = FromBucket
    /\ GivenTo =>
         /\ \A k \in 1..Len(rows) : ~After(rows[k].tt, ToBucket)
         /\ rows # << >> => rows[Len(rows)].tt = ToBucket

(***************************************************************************)
(* C11.  With at most MaxCategories distinct labels the legend is the list *)
(* of the labels itself: every label is printed under its own name, every  *)
(* bucket has one row per label holding that label's own count, and no     *)
(* "...others" entry appears; so also with exactly MaxCategories labels.   *)
(***************************************************************************)
Others == << ".", ".", ".", "o", "t", "h", "e", "r", "s" >>

Rendered == ver = "A" /\ pc = "done" /\ Len(items) > 0 /\ gap > 0

CollapseIsNoOp ==
  (Rendered /\ Len(tagList) <= MaxCategories /\ tagList # << << >> >>) =>
    /\ legend = tagList
    /\ \A k \in 1..Len(legend) : legend[k] # Others
    /\ Len(rows) % Len(tagList) = 0
    /\ \A k \in 1..Len(rows) :
         /\ rows[k].i = (k - 1) % Len(tagList)
         /\ rows[k].count = Count(BinAt(bins, rows[k].tt), tagList[rows[k].i + 1])

(***************************************************************************)
(* C12.  Every step of the aggregation grows monotonically: the running    *)
(* minimum never moves later (so neither does the base, the minimum        *)
(* truncated to the width), the running maximum never moves earlier, the   *)
(* number of buckets from base to the maximum never decreases, no bucket   *)
(* disappears and no count recorded in a bucket gets smaller.              *)
(***************************************************************************)
\* the number of buckets between two bucket starts; the widths of the model
\* divide the day, so days and milliseconds are counted apart
Buckets(b, e, w) == (e.day - b.day) * (MsPerDay \div w) + ((e.ms - b.ms) \div w) + 1

\* the number of buckets from lo to hi at width w
Covered(lo, hi, w) == Buckets(Truncate(lo, w), Truncate(hi, w), w)

\* every count of the bins b is still there, not smaller, in the bins c
KeepsCountsA(b, c) ==
  \A t \in DOMAIN b : \A l \in DOMAIN b[t] : Count(BinAt(c, t), l) >= b[t][l]

GrowthA ==
  (ver = "A" /\ pc = "aggregate" /\ pc' = "aggregate") =>
    /\ ~After(timeMin', timeMin)
    /\ ~Before(timeMax', timeMax)
    /\ gap > 0 =>
         /\ ~After(Truncate(timeMin', gap), Truncate(timeMin, gap))
         /\ Covered(timeMin', timeMax', gap) >= Covered(timeMin, timeMax, gap)
    /\ DOMAIN bins \subseteq DOMAIN bins'
    /\ KeepsCountsA(bins, bins')

GrowthB ==
  /\ (ver = "B" /\ pc = "minmax" /\ pc' = "minmax") =>
       /\ ~After(min', min)
       /\ ~Before(max', max)
       /\ wid > 0 =>
            /\ ~After(Truncate(min', wid), Truncate(min, wid))
            /\ Covered(min', max', wid) >= Covered(min, max, wid)
  /\ (ver = "B" /\ pc = "aggregate" /\ pc' = "aggregate") =>
       /\ Len(bins') = Len(bins)
       /\ \A k \in 1..Len(bins) : bins'[k] >= bins[k]

GrowthIsMonotonic == [][GrowthA /\ GrowthB]_vars

\* the range loop or the aggregation loop is over three items of which the
\* second lies before the first and the third after it: the range grew at
\* both ends
GrewAtBothEnds ==
  /\ pc \in {"aggregate", "minmax"} /\ Width > 0 /\ Len(items) = 3 /\ i > 3
  /\ Before(InstantOf(2), InstantOf(1))
  /\ After(InstantOf(3), InstantOf(1))

(***************************************************************************)
(* C13.  In a run with at least one parsed line and a positive width,      *)
(* whatever the options (--bin-size included): the divisor of the bar      *)
(* scale is not zero, no printed bar is longer than the bar length, and    *)
(* the row with the largest count has a bar of exactly the bar length     *)
(* (the last for runs without --from and --to, where every bucket is       *)
(* printed).                                                               *)
(***************************************************************************)
\* the divisor the bars are scaled by
Divisor == IF ver = "A" THEN binSize ELSE wmax

LargestCount == CHOOSE c \in {rows[k].count : k \in 1..Len(rows)} :
                  \A k \in 1..Len(rows) : rows[k].count <= c

BarsFitBarLength ==
  (pc \in {"render", "done"} /\ Len(items) > 0 /\ Width > 0) =>
    /\ Divisor # 0
    /\ \A k \in 1..Len(rows) : rows[k].bar <= opts.BarLength
    /\ (pc = "done" /\ rows # << >> /\ NoRange) =>
         \A k \in 1..Len(rows) :
           rows[k].count = LargestCount => rows[k].bar = opts.BarLength

====
